---------------------------- MODULE Spec2Model ----------------------------
(***************************************************************************)
(* State-machine model of leancloud/client-engine-nodejs-sdk:              *)
(*   - RedisLoadBalancer (src/src/redis-load-balancer.ts)                  *)
(*   - RedisPRCNode      (src/unnamed/part_001, lines 284-421)             *)
(*   - GameManager, Game (src/src/game-manager.ts, src/src/game.ts)        *)
(*   - LocalMatchMaker   (src/unnamed/part_001, lines 87-161)              *)
(*                                                                         *)
(* One node of the pool (self) is modelled in full; its peers are the      *)
(* environment: they publish arbitrary loads and answer (or fail to        *)
(* answer) RPC requests with the same handleRPCCall code.                  *)
(*                                                                         *)
(* Node.js runs every callback to completion and drains the promise        *)
(* (microtask) queue before the next I/O or timer callback.  A chain of    *)
(* continuations that only awaits already-settled promises is therefore    *)
(* one step of the model, or a sequence of steps during which no I/O,      *)
(* timer or environment step is enabled (see Quiet).                       *)
(***************************************************************************)
EXTENDS Integers, Sequences, FiniteSets, TLC

\* ------------------------------------------------------------------ bounds
MaxLoad == 1        \* loads range over 0..MaxLoad
MaxReq  == 2        \* consume requests / RPC calls issued by the node
MaxGames == 2       \* rooms the GameManager may create
MaxCalls == 2       \* makeReservation / match calls
MaxTimers == 2      \* pending hold timers per (game, player)
MaxDepth == 2       \* nesting of the payloads sent through the codec
MaxArrayLen == 1    \* length of the arrays in these payloads
MaxAge == 2         \* ticks counted since the node came online

\* --------------------------------------------------------------- constants
playerLimit == 2    \* Game.playerLimit
concurrency == 1    \* PQueue concurrency of the GameManager

\* the game class handed to the GameManager (IGameConstructor)
defaultSeatCount == 2
minSeatCount == 1
maxSeatCount == 2

NodeIds == {"A", "B", "C"}
self    == "A"
Loads   == 0..MaxLoad
Reqs    == 1..MaxReq
Players == {"p1", "p2", "p3"}
GameIds == 1..MaxGames
CallIds == 1..MaxCalls
\* createGameOptions.seatCount: absent (the default), or any number
SeatCountOptions ==
  {defaultSeatCount} \cup (minSeatCount - 1)..(maxSeatCount + 1)

VARIABLES
  \* RedisLoadBalancer
  open,        \* RedisLoadBalancer.open
  online,      \* RedisLoadBalancer._online: "undefined", "true" or "false"
  loads,       \* RedisLoadBalancer.loads: a map from some node ids to loads
  localLoad,   \* consumer.getLoad()
  req,         \* the consume() invocations, one record per request
  \* RedisPRCNode
  subscribed,  \* the node's subClient is subscribed to its two channels
  call,        \* the call() invocations, one record per correlation id
  reqMsgs,     \* request messages delivered to their target's request channel
  respMsgs,    \* response messages on their way to the node's result channel
  \* GameManager (the consumer), its games and the LocalMatchMaker
  gmOpen,      \* GameManager.open
  closePc,     \* the promise of GameManager.close(): none, pending, resolved
  games,       \* GameManager.games, in insertion order
  created,     \* rooms created so far
  seatCount,   \* per game: the seatCount its room was created with
  roomOpened,  \* per game: room.opened
  players,     \* per game: room.playerList without the master client
  registeredPlayers,  \* per game: Game.registeredPlayers
  timers,      \* per game and player: hold timers set and not yet fired
  mr,          \* the makeReservation() / match() invocations
  termLeft,    \* per game: PLAYER_ROOM_LEFT events terminate() still takes
               \* (-1: terminate() not pending, 0: its promise resolved)
  stayed,      \* players in a room since close() was called
  signals,     \* LOAD_CHANGE events the GameManager emitted so far
  expired,     \* per game: players whose reservation a hold timer cancelled
               \* and who neither reserved again nor joined since
  \* RedisLoadBalancer, the reports of its load
  key,         \* the value stored under redisKey: Absent or a load
  thr,         \* the throttle of reportLoad: idle, window (a call ran
               \* less than the wait ago), pending (a call is held back)
  timerSet,    \* reportIntervalTimer is armed
  windowWrites,  \* reports written since the last tick of the wait
  burst,       \* a LOAD_CHANGE arrived since the node is open and online
  sinceOnline, \* ticks since the node came online with no report written
               \* since (-1: offline, closed or a report was written)
  \* RedisPRCNode, a payload on its way through the codec
  codec,
  \* autoDestroy, per game: the polls of its killerTimer
  auto,
  \* fetchLoads, its last run: what KEYS listed and what MGET found
  fetch

lbVars  == <<open, online, loads, localLoad, req>>
rpcVars == <<subscribed, call, reqMsgs, respMsgs>>
gameVars == <<games, created, seatCount, roomOpened, players,
              registeredPlayers, timers, mr, signals, expired>>
closeVars == <<gmOpen, closePc, termLeft, stayed>>
gmVars  == <<closeVars, gameVars>>
repVars == <<key, thr, timerSet, windowWrites, burst, sinceOnline>>
codecVars == <<codec>>
autoVars == <<auto>>
fetchVars == <<fetch>>
sideVars == <<repVars, codecVars, autoVars, fetchVars>>
vars    == <<lbVars, rpcVars, gmVars, sideVars>>


\* ------------------------------------------------------- records and types
ReqInit ==
  [pc |-> "idle",       \* idle, fetching, resumed, rpc, done
   mode |-> "none",     \* the branch consume() took: closed, offline, online
   fetches |-> 0,       \* fetchLoads() invocations made for this request
   rpcs |-> 0,          \* redisPRCNode.call() invocations made
   locals |-> 0,        \* consumer.consume() invocations made
   outcome |-> "none",  \* value, closed (RedisLoadBalancer closed.),
                        \* gmClosed (GameManager closed.), rpcError
   result |-> "none"]   \* the node whose consumer produced the value

CallInit ==
  [pc |-> "none",       \* none, publishing, awaiting, done
   target |-> "none",
   delivered |-> 0,     \* PUBLISH's answer: subscribers that received it
   outcome |-> "none",  \* payload, nopeer, timeout
   payload |-> "none",
   handled |-> "no"]    \* what the remote handler did: no, ok, failed

Perms(D) ==
  {s \in [1..Cardinality(D) -> D] :
     \A i, j \in 1..Cardinality(D) : s[i] = s[j] => i = j}

\* ------------------------------------------------------------ the codec
\* JavaScript values: undefined, null, strings, arrays and plain objects
Undef == [t |-> "undefined"]
Null == [t |-> "null"]
Str(v) == [t |-> "string", v |-> v]
Arr(items) == [t |-> "array", items |-> items]
Obj(fields) == [t |-> "object", fields |-> fields]

RedisUndefined == "__RLB_undefined"

Keys == {"a"}

RECURSIVE Payloads(_)
Payloads(d) ==
  LET leaves == {Undef, Null, Str("x"), Str(RedisUndefined)}
  IN  IF d = 0 THEN leaves
      ELSE LET sub == Payloads(d - 1)
           IN  leaves
               \cup {Arr(a) : a \in UNION {[1..n -> sub] : n \in 0..MaxArrayLen}}
               \cup {Obj(f) : f \in UNION {[K -> sub] : K \in SUBSET Keys}}

\* variant: replace that returns its argument
ReplaceNothing(object, prevVal, newVal) == object

\* replace(object, prevVal, newVal)
RECURSIVE replace(_, _, _)
replace(object, prevVal, newVal) ==
  IF object = prevVal THEN newVal
  ELSE IF object.t = "array"
  THEN Arr([i \in DOMAIN object.items |->
              replace(object.items[i], prevVal, newVal)])
  ELSE IF object.t = "object"
  THEN Obj([k \in DOMAIN object.fields |->
              replace(object.fields[k], prevVal, newVal)])
  ELSE object

encodeUndefined(x) == replace(x, Undef, Str(RedisUndefined))
decodeUndefined(x) == replace(x, Str(RedisUndefined), Undef)

\* JSON.parse(JSON.stringify(v)) for v the payload field of a message: a
\* field whose value is undefined is left out, undefined in an array
\* becomes null
RECURSIVE Json(_)
Json(v) ==
  IF v.t = "array"
  THEN Arr([i \in DOMAIN v.items |->
              IF v.items[i] = Undef THEN Null ELSE Json(v.items[i])])
  ELSE IF v.t = "object"
  THEN Obj([k \in {j \in DOMAIN v.fields : v.fields[j] # Undef} |->
              Json(v.fields[k])])
  ELSE v

\* autoDestroy: filter(roomIsEmpty), take(2) on the polls of one game
AutoInit ==
  [seen |-> 0,          \* polls that passed the filter so far
   prev |-> "none",     \* what the poll before observed: none, empty, busy
   pc |-> "polling"]    \* polling, done (take(2) completed: destroy() ran)

CodecInit == [pc |-> "idle", x |-> Undef, wire |-> Undef, y |-> Undef]

\* No continuation is waiting in the promise queue: I/O, timer and
\* environment steps happen only then.
Quiet == \A r \in Reqs : req[r].pc # "resumed"

\* ------------------------------------------------------------ GameManager
\* makeReservation's guard: if (!this.open) throw "GameManager closed."
MakeReservationRefused == ~gmOpen

MrInit ==
  [pc |-> "none",       \* none, queued, creating, done
   kind |-> "none",     \* makeReservation or match
   playerIds |-> {},    \* the players of the call, while it waits
   seats |-> 0,         \* the seatCount asked for, while the call waits
   outcome |-> "none"]  \* ok, closed (GameManager closed.), full (Reserve
                        \* seats fail), error (creation failed), nomatch

\* a call that returned or threw
MrDone(k, o) == [MrInit EXCEPT !.pc = "done", !.kind = k, !.outcome = o]

\* Game.availableSeatCount
availableSeatCount(g) ==
  playerLimit - Cardinality(players[g]) - Cardinality(registeredPlayers[g])

\* GameManager.load
load == Len(games)

\* GameManager.availableGames
availableGames ==
  LET Avail(g) == roomOpened[g] /\ availableSeatCount(g) # 0
  IN  SelectSeq(games, Avail)

\* room.customProperties: the rooms differ in one property, which a room
\* keeps for its life
customProperties(g) == IF g = 1 THEN "a" ELSE "b"

\* the room queries: {} and the queries for one value of the property
RoomQueries == {"{}", "a", "b"}

\* sift(roomQuery)(props)
Sift(roomQuery, props) == roomQuery = "{}" \/ roomQuery = props

\* variant: getAvailableGames with the newest game first
getAvailableGamesNewestFirst(n, roomQuery) ==
  LET Avail(g) == /\ roomOpened[g] /\ availableSeatCount(g) >= n
                  /\ Sift(roomQuery, customProperties(g))
      all == SelectSeq(games, Avail)
  IN  [i \in 1..Len(all) |-> all[Len(all) + 1 - i]]

\* LocalMatchMaker.getAvailableGames
getAvailableGames(n, roomQuery) ==
  LET Avail(g) == roomOpened[g] /\ availableSeatCount(g) >= n
      Query(g) == Sift(roomQuery, customProperties(g))
  IN  SelectSeq(SelectSeq(games, Avail), Query)

InGames(g) == \E i \in 1..Len(games) : games[i] = g

\* Game.terminate at the time it is called: take(players.length) of the
\* PLAYER_ROOM_LEFT events; take(0) completes at once
Terminate(g) == Cardinality(players[g])

\* Promise.all over the terminate() promises
AllTerminated(t) == \A g \in GameIds : t[g] <= 0

\* GameManager.close
GMCloseEffect ==
  LET t == [g \in GameIds |-> IF InGames(g) THEN Terminate(g) ELSE -1]
  IN  /\ gmOpen' = FALSE
      /\ termLeft' = t
      /\ closePc' = IF AllTerminated(t) THEN "resolved" ELSE "pending"
      /\ stayed' = UNION {players[g] : g \in {h \in GameIds : InGames(h)}}

\* --------------------------------------------------- RedisLoadBalancer
\* fetchLoads: keys is the answer of KEYS (the keys present, in any order),
\* store the values MGET then finds (a key that expired in between is
\* absent from store and reads as null).  filter(isString) drops the nulls
\* and reduce() pairs the i-th remaining value with keys[i].
FetchLoadsResult(keys, store, old) ==
  IF Len(keys) = 0
  THEN old
  ELSE LET IsString(k) == k \in DOMAIN store
           strs == SelectSeq(keys, IsString)
           Index(n) == CHOOSE i \in 1..Len(strs) : keys[i] = n
       IN  [n \in {keys[i] : i \in 1..Len(strs)} |-> store[strs[Index(n)]]]

FetchInit == [pc |-> "none", keys |-> << >>, store |-> << >>]

\* What a run of fetchLoads can leave in this.loads: the peers' keys are
\* the environment's, so KEYS may list any keys in any order and MGET may
\* find any of them expired.  With no key listed, this.loads is kept.
FetchedMaps ==
  UNION {UNION {{FetchLoadsResult(keys, store, << >>) :
                   store \in UNION {[E -> Loads] : E \in SUBSET D}} :
                keys \in Perms(D)} :
         D \in (SUBSET NodeIds) \ {{}}}

FetchOutcomes(old) == {FetchLoadsResult(<< >>, << >>, old)} \cup FetchedMaps

\* variant: an entry fetched for this.id is kept
WithSelfStale(l, ld) ==
  [n \in DOMAIN l \cup {self} |-> IF n \in DOMAIN l THEN l[n] ELSE ld]

\* getLowestLoadInfo: { ...this.loads, [this.id]: this.consumer.getLoad() }
WithSelf(l, ld) ==
  [n \in DOMAIN l \cup {self} |-> IF n = self THEN ld ELSE l[n]]

\* variant: maxBy in the place of minBy
LowestLoadInfoMax(l, ld) ==
  LET m == WithSelf(l, ld)
  IN  {<<n, m[n]>> : n \in {k \in DOMAIN m : \A j \in DOMAIN m : m[k] >= m[j]}}

\* _(loads).toPairs().minBy(load): the first pair of minimal load.  The
\* order of the pairs is the order KEYS listed them, which is arbitrary:
\* any pair of minimal load can be the first.
LowestLoadInfo(l, ld) ==
  LET m == WithSelf(l, ld)
  IN  {<<n, m[n]>> : n \in {k \in DOMAIN m : \A j \in DOMAIN m : m[k] <= m[j]}}

\* variant: the ids are compared, not the loads
IsLocalLowestById(info, ld) == info[1] = self

\* if (load === localLoad): this node is the least loaded one
IsLocalLowest(info, ld) == info[2] = ld

\* variant: consume without the check of open
ConsumeRefusedNever == FALSE

\* consume: if (!this.open) throw new Error("RedisLoadBalancer closed.")
ConsumeRefused == ~open

\* variant: online === false in the place of !online
IsOfflineExplicit == online = "false"

\* consume: if (!this.online)
IsOffline == online # "true"

\* this.consumer.consume(params) with the GameManager as the consumer
LocalConsume(rq) ==
  [rq EXCEPT !.pc = "done", !.locals = @ + 1,
             !.outcome = IF MakeReservationRefused THEN "gmClosed" ELSE "value",
             !.result = IF MakeReservationRefused THEN "none" ELSE self]

\* variant: the catch block rethrows
FallbackRethrow(rq) == [rq EXCEPT !.pc = "done", !.outcome = "rpcError"]

\* catch (error) { console.warn(...); return this.consumer.consume(params); }
Fallback(rq) == LocalConsume(rq)


\* ----------------------------------------------------------- RedisPRCNode
\* call(), up to the answer of PUBLISH: redis hands the request to the
\* target's subClient if it is subscribed and answers with the count.  A
\* peer is the environment's: it may be subscribed or gone.
Publish(r, target) ==
  \E up \in BOOLEAN :
    /\ target = self => up = subscribed
    /\ call' = [call EXCEPT ![r] =
                  [CallInit EXCEPT !.pc = "publishing", !.target = target,
                                   !.delivered = IF up THEN 1 ELSE 0]]
    /\ reqMsgs' = IF up THEN reqMsgs \cup {[id |-> r, to |-> target]}
                  ELSE reqMsgs
    /\ UNCHANGED <<subscribed, respMsgs>>

\* consume() after `await this.redisPRCNode.call(...)` settled with c
AfterCall(rq, c) ==
  IF rq.pc # "rpc" THEN rq
  ELSE IF c.outcome = "payload"
       THEN [rq EXCEPT !.pc = "done", !.outcome = "value", !.result = c.payload]
       ELSE Fallback(rq)

\* variant: the filter without the comparison of the ids
MatchesAny(r, m) == TRUE

\* filter(channel === `${subChannel}:result` && incomingMessage.id === id)
Matches(r, m) == m.id = r

\* variant: the handler is the load balancer's consume, which sends the
\* request on to another node
HandlerForwardsConsume(m) ==
  {[id |-> m.id, to |-> n] : n \in NodeIds \ {m.to}}

\* the requests that the handler of the RPC node sends on to other nodes:
\* the handler is (params) => this.consumer.consume(params), the consumer's
\* own consume, which makes no call
HandlerForwards(m) == {}

\* variant: call without rxTimeout
TimeoutNever(r) == FALSE

\* rxTimeout(timeout) on the subscription made after PUBLISH answered
TimeoutArmed(r) == call[r].pc = "awaiting"

\* ------------------------------------------------- the reports of the load
\* no value is stored under redisKey (never set, deleted or expired)
Absent == -1

\* what reportLoad reads and writes
RepState ==
  [key |-> key, timerSet |-> timerSet, windowWrites |-> windowWrites,
   sinceOnline |-> sinceOnline]

SetRep(st) ==
  /\ key' = st.key
  /\ timerSet' = st.timerSet
  /\ windowWrites' = st.windowWrites
  /\ sinceOnline' = st.sinceOnline

\* variant: the body of reportLoad without the check of open
reportLoadBodyAlways(st, ld) ==
  [(IF online = "true"
    THEN [st EXCEPT !.key = ld, !.windowWrites = @ + 1, !.sinceOnline = -1]
    ELSE st) EXCEPT !.timerSet = TRUE]

\* the body of reportLoad, with ld the value of consumer.getLoad()
reportLoadBody(st, ld) ==
  IF ~open THEN st
  ELSE [(IF online = "true"
         THEN [st EXCEPT !.key = ld, !.windowWrites = @ + 1,
                         !.sinceOnline = -1]
         ELSE st) EXCEPT !.timerSet = TRUE]

\* variant: reportLoad without @throttle
reportLoadUnthrottled(st, ld) ==
  /\ SetRep(reportLoadBody(st, ld))
  /\ thr' = thr

\* @throttle(1000) reportLoad(): a call runs the body when none ran in the
\* last wait; otherwise it is held back until the wait is over
reportLoad(st, ld) ==
  IF thr = "idle"
  THEN /\ SetRep(reportLoadBody(st, ld))
       /\ thr' = "window"
  ELSE /\ SetRep(st)
       /\ thr' = "pending"

\* --------------------------------------------------------------- actions
\* RedisLoadBalancer.consume, up to its first await
ConsumeStart(r) ==
  /\ Quiet
  /\ req[r].pc = "idle"
  /\ call[r].pc = "none"
  /\ IF ConsumeRefused
     THEN req' = [req EXCEPT ![r] = [@ EXCEPT !.pc = "done", !.mode = "closed",
                                               !.outcome = "closed"]]
     ELSE IF IsOffline
     THEN req' = [req EXCEPT ![r] = LocalConsume([@ EXCEPT !.mode = "offline"])]
     ELSE \* await this.getLowestLoadInfo(): fetchLoads() is throttled and
          \* answers with the promise of its last run, settled or pending
          \E settled \in BOOLEAN :
            req' = [req EXCEPT ![r] =
                      [@ EXCEPT !.mode = "online", !.fetches = @ + 1,
                                !.pc = IF settled THEN "resumed" ELSE "fetching"]]
  /\ UNCHANGED <<open, online, loads, localLoad, rpcVars, gmVars>>
  /\ UNCHANGED sideVars

\* fetchLoads: the answers of KEYS and MGET arrive; the requests awaiting
\* this run resume
FetchLoads ==
  /\ Quiet
  /\ online = "true"
  /\ \E m \in FetchOutcomes(loads) : loads' = m
  /\ req' = [r \in Reqs |->
               IF req[r].pc = "fetching" THEN [req[r] EXCEPT !.pc = "resumed"]
               ELSE req[r]]
  /\ UNCHANGED <<open, online, localLoad, rpcVars, gmVars>>
  /\ UNCHANGED sideVars

\* consume after `await this.getLowestLoadInfo()`: lines 121-129
Decide(r) ==
  /\ req[r].pc = "resumed"
  /\ \E info \in LowestLoadInfo(loads, localLoad) :
       IF IsLocalLowest(info, localLoad)
       THEN /\ req' = [req EXCEPT ![r] = LocalConsume(@)]
            /\ UNCHANGED rpcVars
       ELSE /\ req' = [req EXCEPT ![r] = [@ EXCEPT !.pc = "rpc", !.rpcs = @ + 1]]
            /\ Publish(r, info[1])
  /\ UNCHANGED <<open, online, loads, localLoad, gmVars>>
  /\ UNCHANGED sideVars

\* call(): the answer of PUBLISH arrives
AckReceive(r) ==
  /\ Quiet
  /\ call[r].pc = "publishing"
  /\ LET c == IF call[r].delivered = 0
              THEN [call[r] EXCEPT !.pc = "done", !.outcome = "nopeer"]
              ELSE [call[r] EXCEPT !.pc = "awaiting"]
     IN  /\ call' = [call EXCEPT ![r] = c]
         /\ req' = [req EXCEPT ![r] = IF c.pc = "done" THEN AfterCall(@, c) ELSE @]
  /\ UNCHANGED <<open, online, loads, localLoad, subscribed,
                 reqMsgs, respMsgs, gmVars>>
  /\ UNCHANGED sideVars

\* handleRPCCall on the target node: the handler is its consumer's consume
HandleRPCCall(m) ==
  /\ Quiet
  /\ m \in reqMsgs
  /\ \E ok \in BOOLEAN :
       /\ m.to = self => ok = ~MakeReservationRefused
       /\ call' = [call EXCEPT ![m.id].handled = IF ok THEN "ok" ELSE "failed"]
       /\ respMsgs' = IF ok /\ subscribed
                      THEN respMsgs \cup {[id |-> m.id, payload |-> m.to]}
                      ELSE respMsgs
  /\ reqMsgs' = (reqMsgs \ {m}) \cup HandlerForwards(m)
  /\ UNCHANGED <<lbVars, subscribed, gmVars>>
  /\ UNCHANGED sideVars

\* a "message" event of the subClient on the result channel
Deliver(m) ==
  /\ Quiet
  /\ m \in respMsgs
  /\ respMsgs' = respMsgs \ {m}
  /\ LET Hit(r) == call[r].pc = "awaiting" /\ Matches(r, m)
         Done(r) == [call[r] EXCEPT !.pc = "done", !.outcome = "payload",
                                    !.payload = m.payload]
     IN  /\ call' = [r \in Reqs |-> IF Hit(r) THEN Done(r) ELSE call[r]]
         /\ req' = [r \in Reqs |-> IF Hit(r) THEN AfterCall(req[r], Done(r))
                                   ELSE req[r]]
  /\ UNCHANGED <<open, online, loads, localLoad, subscribed,
                 reqMsgs, gmVars>>
  /\ UNCHANGED sideVars

\* the call's timeout fires
Timeout(r) ==
  /\ Quiet
  /\ TimeoutArmed(r)
  /\ LET c == [call[r] EXCEPT !.pc = "done", !.outcome = "timeout"]
     IN  /\ call' = [call EXCEPT ![r] = c]
         /\ req' = [req EXCEPT ![r] = AfterCall(@, c)]
  /\ UNCHANGED <<open, online, loads, localLoad, subscribed,
                 reqMsgs, respMsgs, gmVars>>
  /\ UNCHANGED sideVars

\* RedisLoadBalancer.close: open = false; del key; diconnect();
\* consumer.close()
Close ==
  /\ Quiet
  /\ open
  /\ open' = FALSE
  /\ key' = Absent
  /\ burst' = FALSE
  /\ sinceOnline' = -1
  /\ subscribed' = FALSE
  /\ GMCloseEffect
  /\ UNCHANGED <<online, loads, localLoad, req, call, reqMsgs, respMsgs,
                 gameVars, thr, timerSet, windowWrites, codecVars, autoVars, fetchVars>>

\* the redis client's "connect" and "error" (ECONNREFUSED) events: the
\* setter of online stores the value and emits "online" or "offline"
GoOnline ==
  /\ Quiet
  /\ online # "true"
  /\ online' = "true"
  /\ sinceOnline' = IF open THEN 0 ELSE -1
  /\ UNCHANGED <<open, loads, localLoad, req, rpcVars, gmVars, key, thr,
                 timerSet, windowWrites, burst, codecVars, autoVars, fetchVars>>

GoOffline ==
  /\ Quiet
  /\ online # "false"
  /\ online' = "false"
  /\ sinceOnline' = -1
  /\ burst' = FALSE
  /\ UNCHANGED <<open, loads, localLoad, req, rpcVars, gmVars, key, thr,
                 timerSet, windowWrites, codecVars, autoVars, fetchVars>>

\* the consumer's load (GameManager.games.size) changes: a game is added
\* or removed
LoadChange ==
  /\ Quiet
  /\ \E l \in Loads :
       /\ l = localLoad + 1 \/ l = localLoad - 1
       /\ localLoad' = l
  /\ UNCHANGED <<open, online, loads, req, rpcVars, gmVars>>
  /\ UNCHANGED sideVars

\* RedisPRCNode.call invoked on its own
Call(r, target) ==
  /\ Quiet
  /\ req[r].pc = "idle"
  /\ call[r].pc = "none"
  /\ Publish(r, target)
  /\ UNCHANGED <<lbVars, gmVars>>
  /\ UNCHANGED sideVars

\* RedisPRCNode.diconnect invoked on its own
Diconnect ==
  /\ Quiet
  /\ subscribed
  /\ subscribed' = FALSE
  /\ UNCHANGED <<lbVars, call, reqMsgs, respMsgs, gmVars>>
  /\ UNCHANGED sideVars

\* ------------------------------------------------------- specifications
Init ==
  /\ open = TRUE
  /\ online = "undefined"
  /\ loads = << >>
  /\ localLoad \in Loads
  /\ req = [r \in Reqs |-> ReqInit]
  /\ subscribed = TRUE
  /\ call = [r \in Reqs |-> CallInit]
  /\ reqMsgs = {}
  /\ respMsgs = {}
  /\ gmOpen = TRUE
  /\ closePc = "none"
  /\ games = << >>
  /\ created = 0
  /\ seatCount = [g \in GameIds |-> 0]
  /\ roomOpened = [g \in GameIds |-> FALSE]
  /\ players = [g \in GameIds |-> {}]
  /\ registeredPlayers = [g \in GameIds |-> {}]
  /\ timers = [g \in GameIds |-> [p \in Players |-> 0]]
  /\ mr = [c \in CallIds |-> MrInit]
  /\ termLeft = [g \in GameIds |-> -1]
  /\ stayed = {}
  /\ signals = 0
  /\ expired = [g \in GameIds |-> {}]
  /\ key = Absent
  /\ thr = "window"
  /\ timerSet = TRUE
  /\ windowWrites = 0
  /\ burst = FALSE
  /\ sinceOnline = -1
  /\ codec = CodecInit
  /\ auto = [g \in GameIds |-> AutoInit]
  /\ fetch = FetchInit

\* the load balancer of one node, with its RPC node and its consumer
NextLB ==
  \/ \E r \in Reqs : ConsumeStart(r)
  \/ FetchLoads
  \/ \E r \in Reqs : Decide(r)
  \/ \E r \in Reqs : AckReceive(r)
  \/ \E m \in reqMsgs : HandleRPCCall(m)
  \/ \E m \in respMsgs : Deliver(m)
  \/ \E r \in Reqs : Timeout(r)
  \/ Close
  \/ GoOnline
  \/ GoOffline
  \/ LoadChange

SpecLB == Init /\ [][NextLB]_vars

\* the RPC node alone
NextRPC ==
  \/ \E r \in Reqs : \E n \in NodeIds : Call(r, n)
  \/ \E r \in Reqs : AckReceive(r)
  \/ \E m \in reqMsgs : HandleRPCCall(m)
  \/ \E m \in respMsgs : Deliver(m)
  \/ \E r \in Reqs : Timeout(r)
  \/ Diconnect

SpecRPC == Init /\ [][NextRPC]_vars

\* the answer of PUBLISH and the timer of a call are delivered by the
\* event loop: neither can stay enabled forever without firing
FairSpecRPC ==
  /\ SpecRPC
  /\ \A r \in Reqs : WF_vars(AckReceive(r)) /\ WF_vars(Timeout(r))


\* ==================================================================== GM
\* this.emit(RedisLoadBalancerConsumerEvent.LOAD_CHANGE)
EmitLoadChange == signals' = signals + 1

\* GameManager.reserveSeats / LocalMatchMaker.reserveSeats after their
\* check: game.makeReservation(playerId) and a hold timer, per player
Reserve(g, ps) ==
  /\ registeredPlayers' = [registeredPlayers EXCEPT ![g] = @ \cup ps]
  /\ expired' = [expired EXCEPT ![g] = @ \ ps]
  /\ timers' = [timers EXCEPT ![g] =
                  [p \in Players |-> IF p \in ps THEN @[p] + 1 ELSE @[p]]]

\* the calls are numbered in the order they are made
NextCall(c) == mr[c].pc = "none" /\ \A d \in 1..(c - 1) : mr[d].pc # "none"

TimersBelowBound(ps) ==
  \A g \in GameIds : \A p \in ps : timers[g][p] < MaxTimers

\* GameManager.makeReservation up to its first await
MakeReservation(c, p, sc) ==
  /\ NextCall(c)
  /\ TimersBelowBound({p})
  /\ IF MakeReservationRefused
     THEN /\ mr' = [mr EXCEPT ![c] = MrDone("makeReservation", "closed")]
          /\ UNCHANGED <<registeredPlayers, timers, expired>>
     ELSE IF Len(availableGames) > 0
     THEN LET game == availableGames[1]
          IN  IF availableSeatCount(game) <= 0
              THEN /\ mr' = [mr EXCEPT ![c] = MrDone("makeReservation", "full")]
                   /\ UNCHANGED <<registeredPlayers, timers, expired>>
              ELSE /\ mr' = [mr EXCEPT ![c] = MrDone("makeReservation", "ok")]
                   /\ Reserve(game, {p})
     ELSE /\ mr' = [mr EXCEPT ![c] =
                      [MrInit EXCEPT !.pc = "queued", !.kind = "makeReservation",
                                     !.playerIds = {p},
                                     !.seats = sc]]
          /\ UNCHANGED <<registeredPlayers, timers, expired>>
  /\ UNCHANGED <<lbVars, rpcVars, closeVars, games, created, seatCount,
                 roomOpened, players>>
  /\ UNCHANGED <<signals, sideVars>>

\* createNewGame's checks of the seatCount
SeatCountValid(sc) == ~(sc > maxSeatCount) /\ ~(sc < minSeatCount)

\* variant: a task that failed keeps its place in the queue
RunningStuck ==
  Cardinality({c \in CallIds : mr[c].pc = "creating" \/ mr[c].outcome = "error"})

\* the tasks of the queue that are running
Running == Cardinality({c \in CallIds : mr[c].pc = "creating"})

\* the queue starts its oldest waiting task when fewer than concurrency
\* tasks run: createNewGame up to its first await
StartCreate(c) ==
  /\ mr[c].pc = "queued"
  /\ \A d \in 1..(c - 1) : mr[d].pc # "queued"
  /\ Running < concurrency
  /\ mr' = [mr EXCEPT ![c] =
              IF SeatCountValid(@.seats)
              THEN [@ EXCEPT !.pc = "creating"]
              ELSE MrDone("makeReservation", "error")]
  /\ UNCHANGED <<lbVars, rpcVars, closeVars, games, created, seatCount,
                 roomOpened, players, registeredPlayers, timers>>
  /\ UNCHANGED <<signals, expired, sideVars>>

\* CONNECT_FAILED or ROOM_CREATE_FAILED: the task rejects
CreateFailed(c) ==
  /\ mr[c].pc = "creating"
  /\ mr' = [mr EXCEPT ![c] = MrDone("makeReservation", "error")]
  /\ UNCHANGED <<lbVars, rpcVars, closeVars, games, created, seatCount,
                 roomOpened, players, registeredPlayers, timers>>
  /\ UNCHANGED <<signals, expired, sideVars>>

\* ROOM_CREATED: the task resolves with a new game; makeReservation
\* resumes with addGame, once(END, remove) and reserveSeats
Created(c) ==
  /\ mr[c].pc = "creating"
  /\ created < MaxGames
  /\ LET game == created + 1
         p == CHOOSE q \in mr[c].playerIds : TRUE
     IN  /\ created' = game
         /\ games' = Append(games, game)
         /\ seatCount' = [seatCount EXCEPT ![game] = mr[c].seats]
         /\ roomOpened' = [roomOpened EXCEPT ![game] = TRUE]
         /\ mr' = [mr EXCEPT ![c] = MrDone("makeReservation", "ok")]
         /\ Reserve(game, {p})
  /\ UNCHANGED <<lbVars, rpcVars, closeVars, players>>
  /\ EmitLoadChange
  /\ UNCHANGED sideVars

\* LocalMatchMaker.match on the GameManager's games
Match(c, ps, roomQuery) ==
  /\ NextCall(c)
  /\ TimersBelowBound(ps)
  /\ LET avail == getAvailableGames(Cardinality(ps), roomQuery)
     IN
     IF Len(avail) = 0
     THEN /\ mr' = [mr EXCEPT ![c] = MrDone("match", "nomatch")]
          /\ UNCHANGED <<registeredPlayers, timers, expired>>
     ELSE LET game == avail[1]
          IN  IF availableSeatCount(game) < Cardinality(ps)
              THEN /\ mr' = [mr EXCEPT ![c] = MrDone("match", "full")]
                   /\ UNCHANGED <<registeredPlayers, timers, expired>>
              ELSE /\ mr' = [mr EXCEPT ![c] = MrDone("match", "ok")]
                   /\ Reserve(game, ps)
  /\ UNCHANGED <<lbVars, rpcVars, closeVars, games, created, seatCount,
                 roomOpened, players>>
  /\ UNCHANGED <<signals, sideVars>>

\* variant: cancelReservation that keeps the reservation
cancelReservationKeeps(g, p) == registeredPlayers

\* Game.cancelReservation
cancelReservation(g, p) == [registeredPlayers EXCEPT ![g] = @ \ {p}]

\* the hold timer set by reserveSeats fires
HoldTimerFire(g, p) ==
  /\ timers[g][p] > 0
  /\ timers' = [timers EXCEPT ![g][p] = @ - 1]
  /\ registeredPlayers' =
       IF p \in registeredPlayers[g]
       THEN cancelReservation(g, p)
       ELSE registeredPlayers
  /\ UNCHANGED <<lbVars, rpcVars, closeVars, games, created, seatCount,
                 roomOpened, players, mr>>
  /\ expired' = IF p \in registeredPlayers[g]
                THEN [expired EXCEPT ![g] = @ \cup {p}]
                ELSE expired
  /\ UNCHANGED <<signals, sideVars>>

\* the promise of close() after an event of game g: terminate() of g
\* resolved, and Promise.all with it when it was the last
AfterTerminateEvent(t) ==
  /\ termLeft' = t
  /\ closePc' = IF closePc = "pending" /\ AllTerminated(t)
                THEN "resolved" ELSE closePc

\* the play server lets a client into an open room that has fewer than
\* maxPlayerCount = seatCount + 1 members; the game's PLAYER_ROOM_JOINED
\* handler drops the player's reservation when there is one
Join(p, g) ==
  /\ InGames(g)
  /\ roomOpened[g]
  /\ \A h \in GameIds : p \notin players[h]
  /\ Cardinality(players[g]) + 1 < seatCount[g] + 1
  /\ players' = [players EXCEPT ![g] = @ \cup {p}]
  /\ registeredPlayers' =
       IF p \in registeredPlayers[g]
       THEN [registeredPlayers EXCEPT ![g] = @ \ {p}]
       ELSE registeredPlayers
  /\ UNCHANGED <<lbVars, rpcVars, closeVars, games, created, seatCount,
                 roomOpened, timers, mr>>
  /\ expired' = [expired EXCEPT ![g] = @ \ {p}]
  /\ UNCHANGED <<signals, sideVars>>

\* PLAYER_ROOM_LEFT: a player leaves the room; a pending terminate()
\* takes the event
Leave(p, g) ==
  /\ InGames(g)
  /\ p \in players[g]
  /\ players' = [players EXCEPT ![g] = @ \ {p}]
  /\ stayed' = stayed \ {p}
  /\ AfterTerminateEvent(IF termLeft[g] > 0
                         THEN [termLeft EXCEPT ![g] = @ - 1]
                         ELSE termLeft)
  /\ UNCHANGED <<lbVars, rpcVars, gmOpen, games, created, seatCount,
                 roomOpened, registeredPlayers, timers, mr>>
  /\ UNCHANGED <<signals, expired, sideVars>>

\* the master client closes the room (room.opened becomes false)
RoomClosed(g) ==
  /\ InGames(g)
  /\ roomOpened[g]
  /\ roomOpened' = [roomOpened EXCEPT ![g] = FALSE]
  /\ UNCHANGED <<lbVars, rpcVars, closeVars, games, created, seatCount,
                 players, registeredPlayers, timers, mr>>
  /\ UNCHANGED <<signals, expired, sideVars>>

\* variant: remove that deletes nothing
RemoveNothing(g) == games

\* GameManager.remove
Remove(g) ==
  LET Other(h) == h # g
  IN  SelectSeq(games, Other)

\* Game.destroy: the master client disconnects and the game emits END;
\* the GameManager removes it, a pending terminate() resolves.  The room
\* and the reservations of a game that ended are not observed any more.
DestroyEffect(g) ==
  /\ InGames(g)
  /\ games' = Remove(g)
  /\ stayed' = stayed \ players[g]
  /\ players' = [players EXCEPT ![g] = {}]
  /\ registeredPlayers' = [registeredPlayers EXCEPT ![g] = {}]
  /\ timers' = [timers EXCEPT ![g] = [p \in Players |-> 0]]
  /\ AfterTerminateEvent(IF termLeft[g] > 0
                         THEN [termLeft EXCEPT ![g] = 0]
                         ELSE termLeft)
  /\ UNCHANGED <<lbVars, rpcVars, gmOpen, created, seatCount, roomOpened,
                 mr>>
  /\ expired' = [expired EXCEPT ![g] = {}]
  /\ EmitLoadChange

\* a game calls destroy()
Destroy(g) ==
  /\ DestroyEffect(g)
  /\ UNCHANGED sideVars

\* GameManager.close called on the GameManager itself
GMClose ==
  /\ closePc = "none"
  /\ GMCloseEffect
  /\ UNCHANGED <<lbVars, rpcVars, gameVars>>
  /\ UNCHANGED sideVars

PlayerGroups == {ps \in SUBSET Players : Cardinality(ps) \in 1..playerLimit}

\* the GameManager with its games and a LocalMatchMaker on the same games
NextGM ==
  \/ \E c \in CallIds : \E p \in Players : \E sc \in SeatCountOptions :
       MakeReservation(c, p, sc)
  \/ \E c \in CallIds : StartCreate(c)
  \/ \E c \in CallIds : CreateFailed(c)
  \/ \E c \in CallIds : Created(c)
  \/ \E c \in CallIds : \E ps \in PlayerGroups : \E q \in RoomQueries :
       Match(c, ps, q)
  \/ \E g \in GameIds : \E p \in Players : HoldTimerFire(g, p)
  \/ \E g \in GameIds : \E p \in Players : Join(p, g)
  \/ \E g \in GameIds : \E p \in Players : Leave(p, g)
  \/ \E g \in GameIds : RoomClosed(g)
  \/ \E g \in GameIds : Destroy(g)
  \/ GMClose

SpecGM == Init /\ [][NextGM]_vars

\* the node: the load balancer with the GameManager as its consumer.  The
\* load balancer takes the GameManager for a consumer with a load and a
\* consume() that returns or throws (LocalConsume, LoadChange); the
\* GameManager is followed in full while the load balancer has done no
\* more than refuse requests.
GMIdle ==
  /\ created = 0
  /\ mr = [c \in CallIds |-> MrInit]
  /\ gmOpen \/ ~open

LBIdle ==
  /\ \A r \in Reqs :
       /\ call[r] = CallInit
       /\ req[r].pc = "idle" \/ req[r].outcome = "closed"
  /\ online = "undefined"

NextNode ==
  \/ GMIdle /\ NextLB
  \/ LBIdle /\ NextGM

SpecNode == Init /\ [][NextNode]_vars

\* ----------------------------------------------------- the codec at work
\* call / handleRPCCall: encodeUndefined(message) for a payload x
CodecEncode(x) ==
  /\ codec.pc = "idle"
  /\ codec' = [codec EXCEPT !.pc = "encoded", !.x = x,
                            !.wire = encodeUndefined(x)]
  /\ UNCHANGED <<lbVars, rpcVars, gmVars, repVars, autoVars, fetchVars>>

\* JSON.stringify on the sender, JSON.parse on the receiver
CodecTransmit ==
  /\ codec.pc = "encoded"
  /\ codec' = [codec EXCEPT !.pc = "received", !.wire = Json(@)]
  /\ UNCHANGED <<lbVars, rpcVars, gmVars, repVars, autoVars, fetchVars>>

\* subClientMessageStream: decodeUndefined(JSON.parse(message))
CodecDecode ==
  /\ codec.pc = "received"
  /\ codec' = [codec EXCEPT !.pc = "decoded", !.y = decodeUndefined(codec.wire)]
  /\ UNCHANGED <<lbVars, rpcVars, gmVars, repVars, autoVars, fetchVars>>

NextCodec ==
  \/ \E x \in Payloads(MaxDepth) : CodecEncode(x)
  \/ CodecTransmit
  \/ CodecDecode

SpecCodec == Init /\ [][NextCodec]_vars


\* ------------------------------------------- the reports of the load at work
\* the consumer's load changes and it emits LOAD_CHANGE (GameManager.addGame,
\* GameManager.remove): the listener calls reportLoad()
LoadChangeSignal ==
  /\ Quiet
  /\ \E l \in Loads :
       /\ l = localLoad + 1 \/ l = localLoad - 1
       /\ localLoad' = l
       /\ reportLoad(RepState, l)
  /\ burst' = (burst \/ (open /\ online = "true"))
  /\ UNCHANGED <<open, online, loads, req, rpcVars, gmVars, codecVars, autoVars, fetchVars>>

\* the wait of the throttle (1000 ms) is over: a call held back runs (the
\* trailing call), and the next wait begins with it
Tick ==
  /\ Quiet
  /\ LET st == [RepState EXCEPT
                  !.windowWrites = 0,
                  !.sinceOnline = IF @ \in 0..(MaxAge - 1) THEN @ + 1 ELSE @]
     IN  IF thr = "pending"
         THEN /\ SetRep(reportLoadBody(st, localLoad))
              /\ thr' = "window"
         ELSE /\ SetRep(st)
              /\ thr' = "idle"
  /\ UNCHANGED <<lbVars, rpcVars, gmVars, burst, codecVars, autoVars, fetchVars>>

\* reportIntervalTimer fires: () => this.reportLoad()
ReportTimerFire ==
  /\ Quiet
  /\ timerSet
  /\ reportLoad([RepState EXCEPT !.timerSet = FALSE], localLoad)
  /\ UNCHANGED <<lbVars, rpcVars, gmVars, burst, codecVars, autoVars, fetchVars>>

\* the load balancer seen from its load key
NextReport ==
  \/ LoadChangeSignal
  \/ Tick
  \/ ReportTimerFire
  \/ GoOnline
  \/ GoOffline
  \/ Close

SpecReport == Init /\ [][NextReport]_vars

\* ------------------------------------------------- fetchLoads at work
\* what KEYS can list and MGET can then find: the keys of any nodes in any
\* order, any of them expired in between
FetchInputs ==
  UNION {{[keys |-> keys, store |-> store] :
            keys \in Perms(D),
            store \in UNION {[E -> Loads] : E \in SUBSET D}} :
         D \in SUBSET NodeIds}

\* a run of fetchLoads for which KEYS answered keys and MGET found store
FetchLoadsOf(keys, store) ==
  /\ Quiet
  /\ loads' = FetchLoadsResult(keys, store, loads)
  /\ fetch' = [pc |-> "done", keys |-> keys, store |-> store]
  /\ req' = [r \in Reqs |->
               IF req[r].pc = "fetching" THEN [req[r] EXCEPT !.pc = "resumed"]
               ELSE req[r]]
  /\ UNCHANGED <<open, online, localLoad, rpcVars, gmVars>>
  /\ UNCHANGED <<repVars, codecVars, autoVars>>

NextFetch ==
  \E in \in FetchInputs : FetchLoadsOf(in.keys, in.store)

SpecFetch == Init /\ [][NextFetch]_vars

\* ------------------------------------------- the LocalMatchMaker at work
\* new LocalMatchMaker(games): the match maker is given a set of games,
\* here any of the games in any insertion order, their rooms open or not
GameSets ==
  UNION {{s \in [1..n -> GameIds] : \A i, j \in 1..n : s[i] = s[j] => i = j} :
           n \in 0..MaxGames}

InitMM ==
  /\ open = TRUE
  /\ online = "undefined"
  /\ loads = << >>
  /\ localLoad \in Loads
  /\ req = [r \in Reqs |-> ReqInit]
  /\ subscribed = TRUE
  /\ call = [r \in Reqs |-> CallInit]
  /\ reqMsgs = {}
  /\ respMsgs = {}
  /\ gmOpen = TRUE
  /\ closePc = "none"
  /\ games \in GameSets
  /\ created = Len(games)
  /\ seatCount = [g \in GameIds |-> IF InGames(g) THEN defaultSeatCount ELSE 0]
  /\ roomOpened \in {o \in [GameIds -> BOOLEAN] : \A g \in GameIds : o[g] => InGames(g)}
  /\ players = [g \in GameIds |-> {}]
  /\ registeredPlayers = [g \in GameIds |-> {}]
  /\ timers = [g \in GameIds |-> [p \in Players |-> 0]]
  /\ mr = [c \in CallIds |-> MrInit]
  /\ termLeft = [g \in GameIds |-> -1]
  /\ stayed = {}
  /\ signals = 0
  /\ expired = [g \in GameIds |-> {}]
  /\ key = Absent
  /\ thr = "window"
  /\ timerSet = TRUE
  /\ windowWrites = 0
  /\ burst = FALSE
  /\ sinceOnline = -1
  /\ codec = CodecInit
  /\ auto = [g \in GameIds |-> AutoInit]
  /\ fetch = FetchInit

\* the LocalMatchMaker and the games it was given
NextMM ==
  \/ \E c \in CallIds : \E ps \in PlayerGroups : \E q \in RoomQueries :
       Match(c, ps, q)
  \/ \E g \in GameIds : \E p \in Players : HoldTimerFire(g, p)
  \/ \E g \in GameIds : \E p \in Players : Join(p, g)
  \/ \E g \in GameIds : \E p \in Players : Leave(p, g)
  \/ \E g \in GameIds : RoomClosed(g)

SpecMM == InitMM /\ [][NextMM]_vars

\* ------------------------------------------------- autoDestroy at work
\* roomIsEmpty (the master client is in its room as long as the game is
\* one of the games)
roomIsEmpty(g) ==
  Cardinality(players[g]) + Cardinality(registeredPlayers[g]) = 0

\* killerTimer ticks for game g: the poll passes filter(roomIsEmpty) or is
\* dropped; the second poll that passes completes take(2), and destroy()
\* runs
AutoPoll(g) ==
  /\ InGames(g)
  /\ auto[g].pc = "polling"
  /\ IF roomIsEmpty(g) /\ auto[g].seen = 1
     THEN /\ auto' = [auto EXCEPT ![g] = [seen |-> 2, prev |-> "empty",
                                          pc |-> "done"]]
          /\ DestroyEffect(g)
     ELSE /\ auto' = [auto EXCEPT ![g] =
                        [@ EXCEPT !.seen = IF roomIsEmpty(g) THEN @ + 1 ELSE @,
                                  !.prev = IF roomIsEmpty(g) THEN "empty"
                                           ELSE "busy"]]
          /\ UNCHANGED <<lbVars, rpcVars, gmVars>>
  /\ UNCHANGED <<repVars, codecVars, fetchVars>>

\* one game made by an AutoDestroyGame class, its room open, with the
\* reservations of a match maker and the players of its room
InitAuto ==
  /\ InitMM
  /\ games = <<1>>
  /\ roomOpened[1]

NextAuto ==
  \/ \E c \in CallIds : \E ps \in PlayerGroups : \E q \in RoomQueries :
       Match(c, ps, q)
  \/ \E g \in GameIds : \E p \in Players : HoldTimerFire(g, p)
  \/ \E g \in GameIds : \E p \in Players : Join(p, g)
  \/ \E g \in GameIds : \E p \in Players : Leave(p, g)
  \/ \E g \in GameIds : AutoPoll(g)

SpecAuto == InitAuto /\ [][NextAuto]_vars


\* ============================================================ properties
PeersKnown == DOMAIN loads \ {self}

\* C2 (ties go local): when consume decides and the local consumer's load
\* is not above the load of any known peer, the local consumer is invoked
\* once and no RPC call is issued.
C2_TiesGoLocal ==
  [][\A r \in Reqs :
       (/\ req[r].pc = "resumed"
        /\ req'[r].pc # "resumed"
        /\ \A n \in PeersKnown : localLoad <= loads[n])
       => (/\ req'[r].pc = "done"
           /\ req'[r].locals = 1
           /\ req'[r].rpcs = 0
           /\ call'[r].pc = "none"
           /\ reqMsgs' = reqMsgs)]_vars

\* a request was consumed locally while a known peer had the same load
C2_Witness ==
  \E r \in Reqs :
    /\ req[r].pc = "done"
    /\ req[r].mode = "online"
    /\ req[r].locals = 1
    /\ req[r].rpcs = 0
    /\ \A n \in PeersKnown : localLoad <= loads[n]
    /\ \E n \in PeersKnown : localLoad = loads[n]

\* C3 (route to the least-loaded peer): when consume decides and a known
\* peer has a load strictly below the local load, exactly one RPC call is
\* issued, to a known peer of minimal load, and the local consumer is not
\* invoked; when the call returns a payload, the caller receives it.
C3_RouteToLeastLoaded ==
  /\ [][\A r \in Reqs :
          (/\ req[r].pc = "resumed"
           /\ req'[r].pc # "resumed"
           /\ \E n \in PeersKnown : loads[n] < localLoad)
          => (/\ req'[r].pc = "rpc"
              /\ req'[r].rpcs = 1
              /\ req'[r].locals = 0
              /\ call'[r].pc = "publishing"
              /\ call'[r].target \in PeersKnown
              /\ \A n \in PeersKnown : loads[call'[r].target] <= loads[n])]_vars
  /\ [](\A r \in Reqs :
          /\ req[r].rpcs <= 1
          /\ (req[r].pc = "done" /\ call[r].outcome = "payload")
             => (/\ req[r].outcome = "value"
                 /\ req[r].result = call[r].payload
                 /\ req[r].result = call[r].target
                 /\ req[r].locals = 0
                 /\ req[r].rpcs = 1))

\* a request was answered by the less loaded of two known peers
C3_Witness ==
  \E r \in Reqs :
    /\ req[r].pc = "done"
    /\ call[r].outcome = "payload"
    /\ req[r].result = call[r].target
    /\ req[r].locals = 0
    /\ call[r].target \in PeersKnown
    /\ loads[call[r].target] < localLoad
    /\ \E n \in PeersKnown : loads[call[r].target] < loads[n]

\* C4 (no dispatch to itself): no RPC call issued by consume, and no
\* request message it published, has the node's own id as its target.
C4_NeverCallsSelf ==
  /\ \A r \in Reqs : call[r].pc # "none" => call[r].target # self
  /\ \A m \in reqMsgs : m.to # self

\* a call went to a peer although the fetched map holds an entry for the
\* node itself that is stale and not above the peer's
C4_Witness ==
  \E r \in Reqs :
    /\ call[r].pc = "publishing"
    /\ call[r].target \in PeersKnown
    /\ self \in DOMAIN loads
    /\ loads[self] # localLoad
    /\ loads[self] <= loads[call[r].target]

\* C5 (fallback on RPC failure): a request whose RPC call failed (no
\* subscriber, or timeout, which is also how a failed remote handler
\* shows) ends with the local consumer invoked once, one RPC call made and
\* the local consumer's outcome as its own; the RPC error is not its outcome.
C5_FallbackOnRpcFailure ==
  \A r \in Reqs :
    (req[r].mode = "online" /\ call[r].pc = "done"
       /\ call[r].outcome \in {"nopeer", "timeout"})
    => (/\ req[r].pc = "done"
        /\ req[r].locals = 1
        /\ req[r].rpcs = 1
        /\ req[r].outcome \in {"value", "gmClosed"}
        /\ req[r].outcome = "value" => req[r].result = self)

\* the remote handler failed, the call timed out and the local consumer
\* produced the result
C5_Witness ==
  \E r \in Reqs :
    /\ req[r].pc = "done"
    /\ call[r].outcome = "timeout"
    /\ call[r].handled = "failed"
    /\ req[r].outcome = "value"
    /\ req[r].result = self
    /\ req[r].locals = 1

\* C6 (offline safety): a consume invoked while the node is open and not
\* online ends at once with the local consumer invoked once, no RPC call
\* and no fetchLoads; nothing is added to a finished request.
C6_OfflineSafety ==
  [][\A r \in Reqs :
       /\ (req[r].pc = "idle" /\ req'[r].pc # "idle" /\ open /\ online # "true")
          => (/\ req'[r].pc = "done"
              /\ req'[r].locals = 1
              /\ req'[r].rpcs = 0
              /\ req'[r].fetches = 0
              /\ call'[r].pc = "none"
              /\ reqMsgs' = reqMsgs
              /\ loads' = loads)
       /\ req[r].pc = "done" => req'[r] = req[r]]_vars

\* a request was consumed locally after the node had gone offline
C6_Witness ==
  \E r \in Reqs :
    /\ online = "false"
    /\ req[r].pc = "done"
    /\ req[r].mode = "offline"
    /\ req[r].locals = 1
    /\ req[r].outcome = "value"

\* C1 (seat accounting): for every game of the GameManager, the players
\* in its room plus its reservations never exceed the game's seats.
C1_SeatAccounting ==
  \A g \in GameIds :
    InGames(g) =>
      Cardinality(players[g]) + Cardinality(registeredPlayers[g])
        <= playerLimit

\* C7 (closed is one-way and refuses work): open and GameManager.open
\* never become true again; a consume invoked when the load balancer is
\* closed fails with the closed error, without a fetch, an RPC call or a
\* call of the local consumer; a makeReservation invoked when the
\* GameManager is closed fails without a game, a reservation, a timer or
\* a queued creation.
C7_ClosedOneWay ==
  [][/\ ~open => ~open'
     /\ ~gmOpen => ~gmOpen'
     /\ \A r \in Reqs :
          (~open /\ req[r].pc = "idle" /\ req'[r].pc # "idle")
          => (/\ req'[r] = [ReqInit EXCEPT !.pc = "done", !.mode = "closed",
                                           !.outcome = "closed"]
              /\ call' = call
              /\ reqMsgs' = reqMsgs
              /\ loads' = loads)
     /\ \A c \in CallIds :
          (~gmOpen /\ mr[c].pc = "none"
             /\ mr'[c].kind = "makeReservation")
          => (/\ mr'[c] = MrDone("makeReservation", "closed")
              /\ games' = games
              /\ created' = created
              /\ registeredPlayers' = registeredPlayers
              /\ timers' = timers)]_vars

\* after close(), a consume was refused by the load balancer and a
\* makeReservation by the GameManager
C7_Witness ==
  /\ ~open
  /\ ~gmOpen
  /\ \E r \in Reqs : req[r].pc = "done" /\ req[r].outcome = "closed"
  /\ \E c \in CallIds :
       mr[c].kind = "makeReservation" /\ mr[c].outcome = "closed"

\* C8 (graceful close drains): when the promise of GameManager.close()
\* resolves, no game of the GameManager still has in its room a player
\* who was there when close() was called (a game that emitted END is not
\* one of its games any more).
C8_CloseDrains ==
  [][(closePc # "resolved" /\ closePc' = "resolved")
     => \A g \in GameIds : InGames(g)' => players'[g] \cap stayed' = {}]_vars

\* C9 (in-flight work completes across close): every consume request that
\* passed the open check ends with a result.
C9_InFlightCompletes ==
  \A r \in Reqs :
    (req[r].pc = "done" /\ req[r].mode \in {"offline", "online"})
    => req[r].outcome = "value"

CallCore(c) == <<c.pc, c.target, c.delivered, c.outcome, c.payload>>

\* C11 (RPC correlation): a call ends with a payload only while it awaits
\* its response and only by the response that carries its own id, whose
\* payload it returns; a response with another id, a message on a request
\* channel and a response that arrives after the call ended (timed out)
\* leave the call as it is; whatever the order of the responses, the
\* payload a call returns is the one of its own target.
C11_RpcCorrelation ==
  /\ [][\A r \in Reqs :
          /\ (call[r].pc # "done" /\ call'[r].outcome = "payload")
             => (/\ call[r].pc = "awaiting"
                 /\ \E m \in respMsgs \ respMsgs' :
                      m.id = r /\ call'[r].payload = m.payload)
          /\ (\E m \in respMsgs \ respMsgs' : m.id # r)
             => CallCore(call'[r]) = CallCore(call[r])
          /\ reqMsgs' # reqMsgs /\ call[r].pc # "none"
             => CallCore(call'[r]) = CallCore(call[r])
          /\ call[r].pc = "done"
             => CallCore(call'[r]) = CallCore(call[r])]_vars
  /\ [](\A r \in Reqs :
          call[r].outcome = "payload" => call[r].payload = call[r].target)

\* two calls were outstanding together: one returned the payload of its
\* own target, the other timed out and its late response was dropped
C11_Witness ==
  \E r1, r2 \in Reqs :
    /\ r1 # r2
    /\ call[r1].pc = "done"
    /\ call[r1].outcome = "payload"
    /\ call[r1].payload = call[r1].target
    /\ call[r2].pc = "done"
    /\ call[r2].outcome = "timeout"
    /\ call[r2].handled = "ok"
    /\ call[r2].target # call[r1].target
    /\ subscribed
    /\ \A m \in respMsgs : m.id # r2

\* the payload holds the string "__RLB_undefined" somewhere
RECURSIVE HasSentinel(_)
HasSentinel(v) ==
  \/ v = Str(RedisUndefined)
  \/ v.t = "array" /\ \E i \in DOMAIN v.items : HasSentinel(v.items[i])
  \/ v.t = "object" /\ \E k \in DOMAIN v.fields : HasSentinel(v.fields[k])

\* C12 as stated (codec round-trip): any payload that went through
\* encodeUndefined, JSON and decodeUndefined is the payload that was sent.
C12_CodecRoundTripAny ==
  codec.pc = "decoded" => codec.y = codec.x

\* C12 amended (codec round-trip): a payload that holds no string equal
\* to the sentinel "__RLB_undefined" and went through encodeUndefined,
\* JSON and decodeUndefined is the payload that was sent, with its
\* undefined fields and items undefined and its nulls null.
C12_CodecRoundTrip ==
  (codec.pc = "decoded" /\ ~HasSentinel(codec.x)) => codec.y = codec.x

\* an object with an undefined item nested in an array came back as sent,
\* having crossed the wire with the sentinel in its place
C12_Witness ==
  /\ codec.pc = "decoded"
  /\ codec.x = Obj([k \in Keys |-> Arr(<<Undef>>)])
  /\ codec.wire = Obj([k \in Keys |-> Arr(<<Str(RedisUndefined)>>)])
  /\ codec.y = codec.x

\* C13 (throttle coalescing): at most one report is written per wait of
\* the throttle; after LOAD_CHANGE signals received while the node is open
\* and online, the key holds the consumer's current load unless a call of
\* reportLoad is still held back, and the call held back writes the load
\* as it is then.
C13_ThrottleCoalescing ==
  /\ [](windowWrites <= 1)
  /\ []((burst /\ thr # "pending") => key = localLoad)
  /\ [][(burst /\ thr = "pending" /\ thr' # "pending" /\ open' /\ online' = "true")
        => (key' = localLoad' /\ burst')]_vars

\* after a burst the trailing call has written the load
C13_Witness ==
  /\ burst
  /\ thr = "window"
  /\ windowWrites = 1
  /\ key = localLoad
  /\ sinceOnline = -1

\* C14 (reconnect reporting): once the node has been open and online for
\* a full wait of the throttle, a report has been written since it came
\* online.
C14_ReconnectReports ==
  sinceOnline < MaxAge

\* a hold timer of player p on game g fires in this step
HoldTimerFires(g, p) ==
  /\ timers'[g][p] = timers[g][p] - 1
  /\ games' = games

\* C15 (reservation expiry): every reservation in a game's table has a
\* hold timer pending; when a hold timer of player p on game g has fired,
\* p has no reservation on g; a hold timer that fires when the
\* reservation is gone changes nothing but the timer itself.
C15_ReservationExpiry ==
  /\ [](\A g \in GameIds : \A p \in registeredPlayers[g] : timers[g][p] > 0)
  /\ [][\A g \in GameIds : \A p \in Players :
          HoldTimerFires(g, p) =>
            /\ p \notin registeredPlayers'[g]
            /\ \A q \in Players \ {p} :
                 (q \in registeredPlayers'[g]) = (q \in registeredPlayers[g])
            /\ \A h \in GameIds \ {g} :
                 registeredPlayers'[h] = registeredPlayers[h]
            /\ p \notin registeredPlayers[g] =>
                 UNCHANGED <<registeredPlayers, players, games, created,
                             seatCount, roomOpened, mr, signals, closeVars>>]_vars

\* the game made by the first call is live, all its hold timers have fired
\* and its reservation table is empty while nobody sits in the room
C15_Witness ==
  /\ mr[1] = MrDone("makeReservation", "ok")
  /\ InGames(1)
  /\ \A p \in Players : timers[1][p] = 0
  /\ registeredPlayers[1] = {}
  /\ players[1] = {}

\* C16 (load-change signals): a step that adds a game, removes a game,
\* makes a reservation or removes a reservation by the expiry of its hold
\* timer emits LOAD_CHANGE.
C16_LoadChangeSignals ==
  [][(\/ Len(games') # Len(games)
      \/ \E g \in GameIds : \E p \in Players :
           p \in registeredPlayers'[g] /\ p \notin registeredPlayers[g]
      \/ \E g \in GameIds : \E p \in Players :
           HoldTimerFires(g, p) /\ p \in registeredPlayers[g])
     => signals' > signals]_vars

\* C17 (late arrival after expiry): a player whose reservation on a game
\* was cancelled by its hold timer, and who has not reserved again, enters
\* the game's room only when the game has a seat that is neither occupied
\* nor reserved.
C17_LateArrival ==
  [][\A g \in GameIds : \A p \in expired[g] :
       (p \in players'[g] /\ p \notin players[g])
         => availableSeatCount(g) > 0]_vars

\* the first game in insertion order whose room is open, that has n seats
\* available and whose room satisfies the query; 0 when there is none
FirstQualifying(n, q) ==
  LET Q == {i \in 1..Len(games) :
              /\ roomOpened[games[i]]
              /\ availableSeatCount(games[i]) >= n
              /\ Sift(q, customProperties(games[i]))}
  IN  IF Q = {} THEN 0
      ELSE games[CHOOSE i \in Q : \A j \in Q : i <= j]

C19_FailedCreation ==
  /\ [][\A c \in CallIds :
          /\ (mr[c].pc \in {"queued", "creating"} /\ mr'[c].outcome = "error")
               => /\ mr'[c] = MrDone("makeReservation", "error")
                  /\ UNCHANGED <<games, created, registeredPlayers, timers,
                                 players, roomOpened, seatCount, signals>>
          /\ (mr[c].pc = "queued" /\ mr'[c].pc # "queued")
               => (mr'[c].outcome = "error") = ~SeatCountValid(mr[c].seats)]_vars
  /\ [](\A c \in CallIds :
          (/\ mr[c].pc = "queued"
           /\ \A d \in CallIds : d < c => mr[d].pc # "queued"
           /\ \A d \in CallIds : mr[d].pc # "creating")
            => ENABLED StartCreate(c))

\* the first call failed in createNewGame and the second, made later,
\* created a game and reserved on it
C19_Witness ==
  /\ mr[1] = MrDone("makeReservation", "error")
  /\ mr[2] = MrDone("makeReservation", "ok")
  /\ games = <<1>>
  /\ signals = 1
  /\ Cardinality(registeredPlayers[1]) = 1

\* C20 (load is the number of live games): load is the number of games
\* added and not ended, which is the additions (created) less the removals
\* (the LOAD_CHANGE events that were not additions); the set changes only
\* by an addition or by a game's END; END of a game takes that game and
\* no other out of the set, lowers load by one and emits one LOAD_CHANGE.
C20_LoadIsLiveJobs ==
  /\ [](/\ load = Cardinality({g \in GameIds : InGames(g)})
        /\ load = created - (signals - created)
        /\ \A g \in GameIds : InGames(g) => g <= created)
  /\ [][/\ \A g \in GameIds :
            Destroy(g) =>
              (/\ InGames(g)
               /\ \A i \in 1..Len(games') : games'[i] # g
               /\ \A h \in GameIds \ {g} :
                    InGames(h) => \E i \in 1..Len(games') : games'[i] = h
               /\ load' = load - 1
               /\ signals' = signals + 1)
        /\ \A c \in CallIds :
            Created(c) =>
              (/\ games' = Append(games, created')
               /\ signals' = signals + 1)
        /\ (games' # games) =>
              ((\E c \in CallIds : Created(c)) \/ (\E g \in GameIds : Destroy(g)))
       ]_vars

\* two games were added and the first has ended
C20_Witness ==
  /\ created = 2
  /\ games = <<2>>
  /\ load = 1
  /\ signals = 3

\* C21 (terminate): the promise of terminate() of a game is resolved only
\* when the game has emitted END or no player who was in its room when
\* terminate() was called is still there.
C21_TerminateWaitsForOccupants ==
  \A g \in GameIds :
    (termLeft[g] = 0 /\ InGames(g)) => players[g] \cap stayed = {}

\* C22 (auto-destroy on idle): autoDestroy destroys a game only when the
\* poll that completes the count and the poll before it both found the
\* room empty (no players, no reservations).
C22_AutoDestroyConsecutive ==
  [][\A g \in GameIds :
       (auto[g].pc = "polling" /\ auto'[g].pc = "done")
         => (auto[g].prev = "empty" /\ roomIsEmpty(g))]_vars

\* C23 (no report after close): once the load balancer is closed its load
\* key is absent and stays so, whatever call of reportLoad runs later (the
\* call held back by the throttle, the interval timer, a LOAD_CHANGE).
C23_NoReportAfterClose ==
  /\ [](~open => key = Absent)
  /\ [][~open => (key' = key /\ ~open')]_vars

\* closed while online; since then the call held back by the throttle and
\* the interval timer have run, and the key is absent
C23_Witness ==
  /\ ~open
  /\ online = "true"
  /\ ~timerSet
  /\ thr = "idle"
  /\ key = Absent

\* C24 (no lost response): a response that arrives on the caller's result
\* channel while its call has not ended (the answer of PUBLISH received or
\* not, the timeout not fired) ends the call with the response's payload.
C24_NoLostResponse ==
  [][\A m \in respMsgs :
       (m \notin respMsgs' /\ call[m.id].pc \in {"publishing", "awaiting"})
         => /\ call'[m.id].pc = "done"
            /\ call'[m.id].outcome = "payload"
            /\ call'[m.id].payload = m.payload]_vars

\* C25 (room is full is unreachable): no makeReservation and no match ends
\* with the error "Reserve seats fail: room is full".
C25_NeverFull ==
  \A c \in CallIds : mr[c].outcome # "full"

\* C26 (exactly-once handling): a consume request that returned a value was
\* handled by one consumer and no more: by the local consumer or by the
\* remote consumer its RPC call reached, not by both.
C26_HandledExactlyOnce ==
  \A r \in Reqs :
    (req[r].pc = "done" /\ req[r].outcome = "value")
      => req[r].locals + (IF call[r].handled = "ok" THEN 1 ELSE 0) = 1

\* C27 (one-hop forwarding): when a node takes a request from its request
\* channel, its handler runs the node's consumer (the request is thereby
\* handled, well or not) and no request is published in that step: no
\* message is added to any request channel and no call changes.
C27_OneHop ==
  [][\A m \in reqMsgs :
       m \notin reqMsgs'
         => /\ reqMsgs' = reqMsgs \ {m}
            /\ call'[m.id].handled \in {"ok", "failed"}
            /\ \A r \in Reqs : CallCore(call'[r]) = CallCore(call[r])
            /\ \A r \in Reqs : req'[r] = req[r]]_vars

\* a request published to this node's own request channel was handled by
\* its consumer and no request is left on any channel
C27_Witness ==
  \E r \in Reqs :
    /\ call[r].target = self
    /\ call[r].handled = "ok"
    /\ reqMsgs = {}

\* C28 (full hold time): a hold timer that cancels a reservation is the
\* timer of the player's latest reservation on the game: no younger timer
\* of that player on that game is still pending.
C28_FullHoldTime ==
  [][\A g \in GameIds : \A p \in Players :
       (HoldTimerFires(g, p) /\ p \in registeredPlayers[g]
                             /\ p \notin registeredPlayers'[g])
         => timers[g][p] = 1]_vars

\* C29 (no redundant creation): when a newly created game is added to the
\* games, no game already there has its room open and a seat available.
C29_NoRedundantCreation ==
  [][Len(games') > Len(games)
       => \A g \in GameIds :
            InGames(g) => ~(roomOpened[g] /\ availableSeatCount(g) > 0)]_vars

\* C30 (fetchLoads is a faithful snapshot): after a run of fetchLoads,
\* this.loads has an entry for a peer exactly when the peer's key held a
\* value at the read, and the entry is the value under that peer's key.
C30_FaithfulSnapshot ==
  fetch.pc = "done" =>
    \A n \in NodeIds \ {self} :
      /\ (n \in DOMAIN loads) = (n \in DOMAIN fetch.store)
      /\ n \in DOMAIN loads => loads[n] = fetch.store[n]

=============================================================================
